---- MODULE Spec2Model ----
\* A model of the HTTP API of the polaris media server (src/src/api.rs):
\* the mount table, the AuthRequirement gate, the /version/, /auth/,
\* /browse/, /flatten/ and /serve/ handlers, the path decoder and the
\* PError -> status translation.  The collection service, the filesystem
\* and the thumbnail generator are collaborators whose results are drawn
\* nondeterministically at each call.
EXTENDS Integers, Sequences, FiniteSets, TLC

VARIABLES
    req,      \* the request being handled
    pc,       \* where its handling stands
    gate,     \* the gate's state for it: none, unchecked, authorized, rejected
    reached,  \* the handler that ran for it
    calls,    \* the collaborator calls made for it, in order
    resp,     \* its response
    authLog,  \* the outcomes of the earlier /auth/ requests (an
              \* observer's record; the server stores none of it)
    parked,   \* a second request in flight, while its thread is not the
              \* one running
    sent      \* the path segments a client encoded into the request's url

vars == <<req, pc, gate, reached, calls, resp, authLog, parked, sent>>

\* What the handling of one request leaves alone.
aux == <<parked, sent>>

\* ------------------------------------------------------------------
\* Bounds and program constants
\* ------------------------------------------------------------------

\* Number of earlier /auth/ attempts the history records.
MaxAuthLog == 2

\* Longest path, in segments, and longest segment, in characters, that
\* the decoder is run on by itself.
MaxSegs == 2
MaxSegLen == 1

CURRENT_MAJOR_VERSION == 1
CURRENT_MINOR_VERSION == 0

\* The fixed maximum dimension art() passes to get_thumbnail.
ThumbnailDimension == 400

\* ------------------------------------------------------------------
\* Errors and statuses
\* ------------------------------------------------------------------

\* The variants of PError matched by From<PError> for IronError.
PErrorKinds ==
    { "Io", "CannotClearExistingIndex", "PathDecoding", "ConfigDirectoryError",
      "CacheDirectoryError", "PathNotInVfs", "CannotServeDirectory",
      "UnsupportedFileType", "AlbumArtSearchError", "ImageProcessingError",
      "UnsupportedMetadataFormat", "MetadataDecodingError", "Unauthorized",
      "IncorrectCredentials" }

Statuses ==
    { "Ok", "BadRequest", "Unauthorized", "Forbidden", "NotFound",
      "InternalServerError" }

\* A translation that keeps the Bad Request and Unauthorized arms and
\* lets every other variant fall through to one default.
StatusOfFallThrough(err) ==
    CASE err = "CannotServeDirectory" -> "BadRequest"
      [] err = "UnsupportedFileType" -> "BadRequest"
      [] err = "IncorrectCredentials" -> "BadRequest"
      [] err = "Unauthorized" -> "Unauthorized"
      [] OTHER -> "InternalServerError"

\* A translation whose I/O arm was given the generic server error.
StatusOfIoInternal(err) ==
    IF err = "PathNotInVfs" THEN "NotFound"
    ELSE IF err \in { "CannotServeDirectory", "UnsupportedFileType",
                      "IncorrectCredentials" } THEN "BadRequest"
    ELSE IF err = "Unauthorized" THEN "Unauthorized"
    ELSE "InternalServerError"

\* impl From<PError> for IronError: the status attached to each variant.
StatusOf(err) ==
    CASE err = "Io" -> "NotFound"
      [] err = "CannotClearExistingIndex" -> "InternalServerError"
      [] err = "PathDecoding" -> "InternalServerError"
      [] err = "ConfigDirectoryError" -> "InternalServerError"
      [] err = "CacheDirectoryError" -> "InternalServerError"
      [] err = "PathNotInVfs" -> "NotFound"
      [] err = "CannotServeDirectory" -> "BadRequest"
      [] err = "UnsupportedFileType" -> "BadRequest"
      [] err = "AlbumArtSearchError" -> "InternalServerError"
      [] err = "ImageProcessingError" -> "InternalServerError"
      [] err = "UnsupportedMetadataFormat" -> "InternalServerError"
      [] err = "MetadataDecodingError" -> "InternalServerError"
      [] err = "Unauthorized" -> "Unauthorized"
      [] err = "IncorrectCredentials" -> "BadRequest"

\* ------------------------------------------------------------------
\* Values carried by requests and responses
\* ------------------------------------------------------------------

NoPath == [name |-> "", ext |-> ""]
NoCookie == [name |-> "", value |-> "", path |-> ""]
NoBody == [kind |-> "none", data |-> ""]
NoResp == [status |-> "none", body |-> NoBody, cookie |-> NoCookie, err |-> "none"]

\* Response::with((status::Ok, body)).
OkResponse(body) ==
    [status |-> "Ok", body |-> body, cookie |-> NoCookie, err |-> "none"]

\* The response iron sends for Err(IronError::new(err, status)).
ErrResponse(err, status) ==
    [status |-> status, body |-> NoBody, cookie |-> NoCookie, err |-> err]

\* A conversion that gives every domain error the same generic status.
FromPErrorGeneric(err) == ErrResponse(err, "InternalServerError")

\* IronError::from(PError): the status comes from the From impl.
FromPError(err) == ErrResponse(err, StatusOf(err))

\* A record of one collaborator call made on behalf of a request.
\* A collaborator's return value: Ok(val) or Err(err).
Result(ok, val, err) == [ok |-> ok, val |-> val, err |-> err]

\* `res` is what the collaborator returned.
Call(op, vpath, rpath, user, pass, dim, res) ==
    [op |-> op, vpath |-> vpath, rpath |-> rpath, user |-> user,
     pass |-> pass, dim |-> dim, res |-> res]

\* What a handler run produces: a response (or a panic) and the
\* collaborator calls it made, in order.
Outcome(kind, response, made) ==
    [kind |-> kind, resp |-> response, calls |-> made]

\* ------------------------------------------------------------------
\* Path decoder (path_from_request)
\* ------------------------------------------------------------------

\* Bytes are integers 0..255; a string is a sequence of bytes.
Backslash == <<92>>

IsHexDigit(b) ==
    \/ (b >= 48 /\ b <= 57)
    \/ (b >= 65 /\ b <= 70)
    \/ (b >= 97 /\ b <= 102)

\* A digit value that is right for "0".."9" only.
HexValueDecimal(b) == b - 48

\* (b as char).to_digit(16)
HexValue(b) ==
    IF b >= 48 /\ b <= 57 THEN b - 48
    ELSE IF b >= 65 /\ b <= 70 THEN b - 55
    ELSE b - 87

\* [&str]::join(sep)
RECURSIVE Join(_, _)
Join(segs, sep) ==
    IF segs = <<>> THEN <<>>
    ELSE IF Len(segs) = 1 THEN segs[1]
    ELSE segs[1] \o sep \o Join(Tail(segs), sep)

\* url::percent_encoding::percent_decode: "%" followed by two hex digits
\* becomes one byte; every other byte, a stray "%" included, is kept.
RECURSIVE percent_decode(_)
percent_decode(bytes) ==
    IF bytes = <<>> THEN <<>>
    ELSE IF /\ bytes[1] = 37
            /\ Len(bytes) >= 3
            /\ IsHexDigit(bytes[2])
            /\ IsHexDigit(bytes[3])
         THEN <<HexValue(bytes[2]) * 16 + HexValue(bytes[3])>>
                  \o percent_decode(SubSeq(bytes, 4, Len(bytes)))
         ELSE <<bytes[1]>> \o percent_decode(Tail(bytes))

IsCont(b) == b >= 128 /\ b <= 191

\* core::str::from_utf8: TRUE iff the bytes are well-formed UTF-8.
RECURSIVE Utf8Valid(_)
Utf8Valid(bytes) ==
    IF bytes = <<>> THEN TRUE
    ELSE LET b == bytes[1]
             n == Len(bytes)
             rest(k) == SubSeq(bytes, k + 1, n)
         IN  IF b <= 127 THEN Utf8Valid(rest(1))
             ELSE IF b >= 194 /\ b <= 223
                  THEN n >= 2 /\ IsCont(bytes[2]) /\ Utf8Valid(rest(2))
             ELSE IF b >= 224 /\ b <= 239
                  THEN /\ n >= 3
                       /\ IsCont(bytes[2])
                       /\ IsCont(bytes[3])
                       /\ (b = 224 => bytes[2] >= 160)
                       /\ (b = 237 => bytes[2] <= 159)
                       /\ Utf8Valid(rest(3))
             ELSE IF b >= 240 /\ b <= 244
                  THEN /\ n >= 4
                       /\ IsCont(bytes[2])
                       /\ IsCont(bytes[3])
                       /\ IsCont(bytes[4])
                       /\ (b = 240 => bytes[2] >= 144)
                       /\ (b = 244 => bytes[2] <= 143)
                       /\ Utf8Valid(rest(4))
             ELSE FALSE

\* A decoder that never fails: it keeps whatever bytes were decoded.
path_from_request_lossy(request) ==
    [ok |-> TRUE, path |-> percent_decode(Join(request.path, Backslash))]

\* path_from_request: join the url's path segments with a backslash,
\* percent-decode, read as UTF-8; the PathBuf holds the decoded string.
path_from_request(request) ==
    LET path_string == Join(request.path, Backslash)
        decoded == percent_decode(path_string)
    IN  IF Utf8Valid(decoded)
        THEN [ok |-> TRUE, path |-> decoded]
        ELSE [ok |-> FALSE, path |-> <<>>]

\* ------------------------------------------------------------------
\* Collaborators: the results each call can return
\* ------------------------------------------------------------------

\* Real filesystem locations the collection can resolve a path to.
RealPaths ==
    { [name |-> "Song", ext |-> "flac"],
      [name |-> "Track", ext |-> "MP3"],
      [name |-> "Cover", ext |-> "jpg"],
      [name |-> "Notes", ext |-> "txt"] }

\* Locations of generated thumbnails.
ThumbPaths ==
    { [name |-> "thumb1", ext |-> "jpg"],
      [name |-> "thumb2", ext |-> "jpg"] }

Listings == { "listing1", "listing2" }

\* Collection::browse and Collection::flatten: Result<listing, PError>;
\* the handlers accept whichever variant the error carries.
CollectionErrors == PErrorKinds
CollectionResults ==
    { Result(TRUE, l, "none") : l \in Listings }
        \cup { Result(FALSE, "", e) : e \in CollectionErrors }

\* Collection::locate: Result<PathBuf, PError>; the one failure it has is
\* a path outside the collection's mount points.
LocateErrors == { "PathNotInVfs" }
LocateResults ==
    { Result(TRUE, p, "none") : p \in RealPaths }
        \cup { Result(FALSE, NoPath, e) : e \in LocateErrors }

\* fs::metadata: the file type read, or an io::Error of some kind.
FileTypes == { "file", "dir", "other" }
IoErrorKinds == { "NotFound", "PermissionDenied", "Other" }
MetadataResults ==
    { Result(TRUE, t, "none") : t \in FileTypes }
        \cup { Result(FALSE, "", e) : e \in IoErrorKinds }

\* get_thumbnail: Result<PathBuf, PError>.
ThumbnailErrors == PErrorKinds
ThumbnailResults ==
    { Result(TRUE, p, "none") : p \in ThumbPaths }
        \cup { Result(FALSE, NoPath, e) : e \in ThumbnailErrors }

\* Extension allow-lists of utils::is_song and utils::is_image; the
\* match is on the lower-cased extension.
AudioExtensions == { "flac", "mp3" }
ImageExtensions == { "jpg", "png" }

ToLowercase(ext) ==
    CASE ext = "FLAC" -> "flac"
      [] ext = "MP3" -> "mp3"
      [] ext = "JPG" -> "jpg"
      [] ext = "PNG" -> "png"
      [] OTHER -> ext

is_song(path) == ToLowercase(path.ext) \in AudioExtensions
is_image(path) == ToLowercase(path.ext) \in ImageExtensions

\* ------------------------------------------------------------------
\* Routing
\* ------------------------------------------------------------------

\* A mount table that puts only "/version/" ahead of the gated chain.
api_handler_gated_auth(seg) ==
    IF seg = "version" THEN "version"
    ELSE "auth_api_chain"

\* The outer Mount of get_api_handler: "/version/" and "/auth/" have
\* their own mounts, every other path falls to "/", the gated chain.
api_handler(seg) ==
    IF seg = "version" THEN "version"
    ELSE IF seg = "auth" THEN "auth"
    ELSE "auth_api_chain"

\* The inner Mount behind the gate; an unmounted path is NoMatch.
auth_api_mount(seg) ==
    IF seg = "browse" THEN "browse"
    ELSE IF seg = "flatten" THEN "flatten"
    ELSE IF seg = "serve" THEN "serve"
    ELSE "NoMatch"

\* ------------------------------------------------------------------
\* The gate and the handlers
\* ------------------------------------------------------------------

\* A gate that lets every request through.
before_open(request) == [ok |-> TRUE, resp |-> NoResp]

\* A gate that looks the cookie's value up among the usernames /auth/
\* has issued.
before_session(request) ==
    IF /\ request.cookie.present
       /\ \E i \in DOMAIN authLog :
            authLog[i].issued /\ authLog[i].user = request.cookie.value
    THEN [ok |-> TRUE, resp |-> NoResp]
    ELSE [ok |-> FALSE, resp |-> ErrResponse("Unauthorized", "Unauthorized")]

\* AuthRequirement::before: Ok iff the request has a "username" cookie.
before(request) ==
    IF request.cookie.present
    THEN [ok |-> TRUE, resp |-> NoResp]
    ELSE [ok |-> FALSE, resp |-> ErrResponse("Unauthorized", "Unauthorized")]

\* version: the encoded Version { major, minor }.
version ==
    Outcome("response",
            OkResponse([kind |-> "json",
                        data |-> [major |-> CURRENT_MAJOR_VERSION,
                                  minor |-> CURRENT_MINOR_VERSION]]),
            <<>>)

\* A session cookie left without its path.
username_cookie_unscoped(username) ==
    [name |-> "username", value |-> username, path |-> ""]

\* The cookie auth issues: named "username", carrying the username,
\* scoped to "/".
username_cookie(username) ==
    [name |-> "username", value |-> username, path |-> "/"]

\* An auth that sets the cookie before it knows the credentials hold.
auth_cookie_first(request, authenticated) ==
    IF ~request.body.parsed
    THEN Outcome("panic", NoResp, <<>>)
    ELSE IF request.body.username.tag # "String"
    THEN Outcome("response", FromPError("IncorrectCredentials"), <<>>)
    ELSE IF request.body.password.tag # "String"
    THEN Outcome("response", FromPError("IncorrectCredentials"), <<>>)
    ELSE LET username == request.body.username.val
             password == request.body.password.val
             call == Call("authenticate", <<>>, NoPath, username, password,
                          0, Result(authenticated, "", "none"))
         IN  IF authenticated
             THEN Outcome("response",
                          [status |-> "Ok",
                           body |-> [kind |-> "text", data |-> ""],
                           cookie |-> username_cookie(username),
                           err |-> "none"],
                          <<call>>)
             ELSE Outcome("response",
                          [FromPError("IncorrectCredentials")
                             EXCEPT !.cookie = username_cookie(username)],
                          <<call>>)

\* auth: `authenticated` is what Collection::auth returns if called.
auth(request, authenticated) ==
    IF ~request.body.parsed
    THEN Outcome("panic", NoResp, <<>>)
    ELSE IF request.body.username.tag # "String"
    THEN Outcome("response", FromPError("IncorrectCredentials"), <<>>)
    ELSE IF request.body.password.tag # "String"
    THEN Outcome("response", FromPError("IncorrectCredentials"), <<>>)
    ELSE LET username == request.body.username.val
             password == request.body.password.val
             call == Call("authenticate", <<>>, NoPath, username, password,
                          0, Result(authenticated, "", "none"))
         IN  IF authenticated
             THEN Outcome("response",
                          [status |-> "Ok",
                           body |-> [kind |-> "text", data |-> ""],
                           cookie |-> username_cookie(username),
                           err |-> "none"],
                          <<call>>)
             ELSE Outcome("response", FromPError("IncorrectCredentials"),
                          <<call>>)

\* A browse that asks the collection for the recursive listing.
browse_calls_flatten(request, browse_result, encoded) ==
    LET path == path_from_request(request)
    IN  IF ~path.ok
        THEN Outcome("response", ErrResponse("Utf8Error", "BadRequest"), <<>>)
        ELSE LET call == Call("flatten", path.path, NoPath, "", "", 0,
                              browse_result)
             IN  IF ~browse_result.ok
                 THEN Outcome("response", FromPError(browse_result.err),
                              <<call>>)
                 ELSE IF ~encoded
                 THEN Outcome("response",
                              ErrResponse("EncoderError", "InternalServerError"),
                              <<call>>)
                 ELSE Outcome("response",
                              OkResponse([kind |-> "json",
                                          data |-> browse_result.val]),
                              <<call>>)

\* browse: `browse_result` is what Collection::browse returns if called,
\* `encoded` whether json::encode of the listing succeeds.
browse(request, browse_result, encoded) ==
    LET path == path_from_request(request)
    IN  IF ~path.ok
        THEN Outcome("response", ErrResponse("Utf8Error", "BadRequest"), <<>>)
        ELSE LET call == Call("browse", path.path, NoPath, "", "", 0,
                              browse_result)
             IN  IF ~browse_result.ok
                 THEN Outcome("response", FromPError(browse_result.err),
                              <<call>>)
                 ELSE IF ~encoded
                 THEN Outcome("response",
                              ErrResponse("EncoderError", "InternalServerError"),
                              <<call>>)
                 ELSE Outcome("response",
                              OkResponse([kind |-> "json",
                                          data |-> browse_result.val]),
                              <<call>>)

\* flatten: as browse, over Collection::flatten.
flatten(request, flatten_result, encoded) ==
    LET path == path_from_request(request)
    IN  IF ~path.ok
        THEN Outcome("response", ErrResponse("Utf8Error", "BadRequest"), <<>>)
        ELSE LET call == Call("flatten", path.path, NoPath, "", "", 0,
                              flatten_result)
             IN  IF ~flatten_result.ok
                 THEN Outcome("response", FromPError(flatten_result.err),
                              <<call>>)
                 ELSE IF ~encoded
                 THEN Outcome("response",
                              ErrResponse("EncoderError", "InternalServerError"),
                              <<call>>)
                 ELSE Outcome("response",
                              OkResponse([kind |-> "json",
                                          data |-> flatten_result.val]),
                              <<call>>)

\* An art that generates the thumbnail and then streams the image itself.
art_raw(real_path, thumb) ==
    LET call == Call("get_thumbnail", <<>>, real_path, "", "",
                     ThumbnailDimension, thumb)
    IN  IF thumb.ok
        THEN Outcome("response",
                     OkResponse([kind |-> "path", data |-> real_path]),
                     <<call>>)
        ELSE Outcome("response", FromPError(thumb.err), <<call>>)

\* art: get_thumbnail(real_path, 400); the thumbnail's path is the body.
art(real_path, thumb) ==
    LET call == Call("get_thumbnail", <<>>, real_path, "", "",
                     ThumbnailDimension, thumb)
    IN  IF thumb.ok
        THEN Outcome("response",
                     OkResponse([kind |-> "path", data |-> thumb.val]),
                     <<call>>)
        ELSE Outcome("response", FromPError(thumb.err), <<call>>)

\* A failed fs::metadata treated like any other I/O failure.
MetadataErrorStatusNotFound(kind) == "NotFound"

\* The status serve gives a failed fs::metadata, by io::ErrorKind.
MetadataErrorStatus(kind) ==
    IF kind = "NotFound" THEN "NotFound"
    ELSE IF kind = "PermissionDenied" THEN "Forbidden"
    ELSE "InternalServerError"

\* A dispatch that classifies by extension before looking at the file
\* type, so a directory named like a song is streamed.
serve_dispatch_classify_first(real_path, file_type, thumb, made) ==
    IF is_song(real_path)
    THEN Outcome("response",
                 OkResponse([kind |-> "path", data |-> real_path]), made)
    ELSE IF file_type # "file"
    THEN Outcome("response", FromPError("CannotServeDirectory"), made)
    ELSE IF is_image(real_path)
    THEN LET out == art(real_path, thumb)
         IN  Outcome(out.kind, out.resp, made \o out.calls)
    ELSE Outcome("response", FromPError("UnsupportedFileType"), made)

\* A dispatch that sends songs through art as well.
serve_dispatch_art_for_songs(real_path, file_type, thumb, made) ==
    IF file_type # "file"
    THEN Outcome("response", FromPError("CannotServeDirectory"), made)
    ELSE IF is_song(real_path) \/ is_image(real_path)
    THEN LET out == art(real_path, thumb)
         IN  Outcome(out.kind, out.resp, made \o out.calls)
    ELSE Outcome("response", FromPError("UnsupportedFileType"), made)

\* A dispatch that streams a file of an unknown kind as it is.
serve_dispatch_stream_unknown(real_path, file_type, thumb, made) ==
    IF file_type # "file"
    THEN Outcome("response", FromPError("CannotServeDirectory"), made)
    ELSE IF is_image(real_path)
    THEN LET out == art(real_path, thumb)
         IN  Outcome(out.kind, out.resp, made \o out.calls)
    ELSE Outcome("response",
                 OkResponse([kind |-> "path", data |-> real_path]), made)

\* A dispatch that refuses directories only.
serve_dispatch_dirs_only(real_path, file_type, thumb, made) ==
    IF file_type = "dir"
    THEN Outcome("response", FromPError("CannotServeDirectory"), made)
    ELSE IF is_song(real_path)
    THEN Outcome("response",
                 OkResponse([kind |-> "path", data |-> real_path]), made)
    ELSE IF is_image(real_path)
    THEN LET out == art(real_path, thumb)
         IN  Outcome(out.kind, out.resp, made \o out.calls)
    ELSE Outcome("response", FromPError("UnsupportedFileType"), made)

\* serve, once the metadata is read: refuse what is not a regular file,
\* stream a song, hand an image to art, refuse anything else.  `made`
\* are the calls made so far.
serve_dispatch(real_path, file_type, thumb, made) ==
    IF file_type # "file"
    THEN Outcome("response", FromPError("CannotServeDirectory"), made)
    ELSE IF is_song(real_path)
    THEN Outcome("response",
                 OkResponse([kind |-> "path", data |-> real_path]), made)
    ELSE IF is_image(real_path)
    THEN LET out == art(real_path, thumb)
         IN  Outcome(out.kind, out.resp, made \o out.calls)
    ELSE Outcome("response", FromPError("UnsupportedFileType"), made)

\* serve: decode, locate, fs::metadata, then classify and dispatch.
\* Each argument after the request is what that collaborator returns if
\* the handler gets as far as calling it.
serve(request, located, metadata, thumb) ==
    LET virtual_path == path_from_request(request)
    IN  IF ~virtual_path.ok
        THEN Outcome("response", ErrResponse("Utf8Error", "BadRequest"), <<>>)
        ELSE LET locate_call == Call("locate", virtual_path.path, NoPath,
                                     "", "", 0, located)
             IN  IF ~located.ok
                 THEN Outcome("response", ErrResponse(located.err, "NotFound"),
                              <<locate_call>>)
                 ELSE LET real_path == located.val
                          metadata_call == Call("metadata", <<>>, real_path,
                                                "", "", 0, metadata)
                          made == <<locate_call, metadata_call>>
                      IN  IF ~metadata.ok
                          THEN Outcome("response",
                                       ErrResponse("io::Error",
                                                   MetadataErrorStatus(metadata.err)),
                                       made)
                          ELSE serve_dispatch(real_path, metadata.val, thumb,
                                              made)

\* The inner Mount's answer for a path none of its routes matches.
no_match == Outcome("response", ErrResponse("NoMatch", "NotFound"), <<>>)

\* ------------------------------------------------------------------
\* Requests
\* ------------------------------------------------------------------

\* The "username" cookie of a request, as get_cookie("username") sees it.
CookieAbsent == [present |-> FALSE, value |-> ""]
Cookies ==
    { CookieAbsent,
      [present |-> TRUE, value |-> "alice"],
      [present |-> TRUE, value |-> "mallory"] }

\* A field of the parsed parameters: absent, a string, or another shape.
Absent == [tag |-> "Absent", val |-> ""]
UsernameFields ==
    { Absent, [tag |-> "Array", val |-> ""],
      [tag |-> "String", val |-> "alice"], [tag |-> "String", val |-> "bob"] }
PasswordFields ==
    { Absent, [tag |-> "Map", val |-> ""], [tag |-> "String", val |-> "secret"] }

\* A body the parameter parser rejects, and the parsed bodies.
UnparsedBody == [parsed |-> FALSE, username |-> Absent, password |-> Absent]
EmptyBody == [parsed |-> TRUE, username |-> Absent, password |-> Absent]
AuthBodies ==
    { UnparsedBody }
        \cup { [parsed |-> TRUE, username |-> u, password |-> p] :
                 u \in UsernameFields, p \in PasswordFields }

\* Url path segments below the mount point, percent-encoded as received:
\* "Music/a", "M%5Ca", "%C3%A9" (valid UTF-8 once decoded) and "%FF",
\* "a/%C3" (not valid UTF-8 once decoded).
SamplePaths ==
    { << <<77>>, <<97>> >>,
      << <<77, 37, 53, 67, 97>> >>,
      << <<37, 67, 51, 37, 65, 57>> >>,
      << <<37, 70, 70>> >>,
      << <<97>>, <<37, 67, 51>> >> }

Request(seg, path, cookie, body) ==
    [seg |-> seg, path |-> path, cookie |-> cookie, body |-> body]

NoReq == Request("", <<>>, CookieAbsent, EmptyBody)

Requests ==
    { Request(seg, <<>>, c, EmptyBody) :
        seg \in { "version", "other" }, c \in Cookies }
        \cup { Request("auth", <<>>, c, b) : c \in Cookies, b \in AuthBodies }
        \cup { Request(seg, p, c, EmptyBody) :
                 seg \in { "browse", "flatten", "serve" },
                 p \in SamplePaths, c \in Cookies }

\* ------------------------------------------------------------------
\* State
\* ------------------------------------------------------------------

\* The state of a request that has not arrived.
NoInFlight ==
    [req |-> NoReq, pc |-> "idle", gate |-> "none", reached |-> "none",
     calls |-> <<>>, resp |-> NoResp]

Init ==
    /\ req = NoReq
    /\ pc = "idle"
    /\ gate = "none"
    /\ reached = "none"
    /\ calls = <<>>
    /\ resp = NoResp
    /\ authLog = <<>>
    /\ parked = NoInFlight
    /\ sent = <<>>

\* A handler returns: its response and calls are recorded.
Finish(name, out) ==
    /\ reached' = name
    /\ calls' = calls \o out.calls
    /\ resp' = out.resp
    /\ pc' = IF out.kind = "panic" THEN "panicked" ELSE "done"

\* A request arrives and the outer Mount picks its route.
Receive ==
    /\ pc \in { "idle", "done", "panicked" }
    /\ \E r \in Requests :
        /\ api_handler(r.seg) = "auth" => Len(authLog) < MaxAuthLog
        /\ req' = r
        /\ pc' = api_handler(r.seg)
        /\ gate' = IF api_handler(r.seg) = "auth_api_chain"
                   THEN "unchecked" ELSE "none"
    /\ reached' = "none"
    /\ calls' = <<>>
    /\ resp' = NoResp
    /\ UNCHANGED <<authLog, aux>>

Version ==
    /\ pc = "version"
    /\ Finish("version", version)
    /\ UNCHANGED <<req, gate, authLog, aux>>

Auth ==
    /\ pc = "auth"
    /\ \E authenticated \in BOOLEAN :
        LET out == auth(req, authenticated)
        IN  /\ Finish("auth", out)
            /\ authLog' = Append(authLog,
                                 [user |-> req.body.username.val,
                                  issued |-> out.resp.cookie.name = "username"])
    /\ UNCHANGED <<req, gate, aux>>

\* The chain's BeforeMiddleware runs ahead of the inner Mount.
Before ==
    /\ pc = "auth_api_chain"
    /\ LET b == before(req)
       IN  IF b.ok
           THEN /\ gate' = "authorized"
                /\ pc' = "auth_api_mount"
                /\ UNCHANGED resp
           ELSE /\ gate' = "rejected"
                /\ pc' = "done"
                /\ resp' = b.resp
    /\ UNCHANGED <<req, reached, calls, authLog, aux>>

Browse ==
    /\ pc = "auth_api_mount"
    /\ auth_api_mount(req.seg) = "browse"
    /\ \E r \in CollectionResults, encoded \in BOOLEAN :
        Finish("browse", browse(req, r, encoded))
    /\ UNCHANGED <<req, gate, authLog, aux>>

Flatten ==
    /\ pc = "auth_api_mount"
    /\ auth_api_mount(req.seg) = "flatten"
    /\ \E r \in CollectionResults, encoded \in BOOLEAN :
        Finish("flatten", flatten(req, r, encoded))
    /\ UNCHANGED <<req, gate, authLog, aux>>

Serve ==
    /\ pc = "auth_api_mount"
    /\ auth_api_mount(req.seg) = "serve"
    /\ \E located \in LocateResults, metadata \in MetadataResults,
          thumb \in ThumbnailResults :
        Finish("serve", serve(req, located, metadata, thumb))
    /\ UNCHANGED <<req, gate, authLog, aux>>

NoMatch ==
    /\ pc = "auth_api_mount"
    /\ auth_api_mount(req.seg) = "NoMatch"
    /\ Finish("NoMatch", no_match)
    /\ UNCHANGED <<req, gate, authLog, aux>>

Next ==
    \/ Receive
    \/ Version
    \/ Auth
    \/ Before
    \/ Browse
    \/ Flatten
    \/ Serve
    \/ NoMatch

Spec == Init /\ [][Next]_vars

\* ------------------------------------------------------------------
\* The path decoder by itself
\* ------------------------------------------------------------------

\* Characters a client may put in a path segment, as UTF-8 bytes:
\* "a", a backslash, "%" and "e" with an acute accent.
PathChars == { <<97>>, <<92>>, <<37>>, <<195, 169>> }

RECURSIVE SegmentsUpTo(_)
SegmentsUpTo(n) ==
    IF n = 0 THEN { <<>> }
    ELSE LET shorter == SegmentsUpTo(n - 1)
         IN  shorter \cup { s \o c : s \in shorter, c \in PathChars }

RECURSIVE PathsOfLen(_)
PathsOfLen(n) ==
    IF n = 0 THEN { <<>> }
    ELSE { Append(p, s) : p \in PathsOfLen(n - 1),
                          s \in SegmentsUpTo(MaxSegLen) }

\* The segment sequences clients send: one to MaxSegs segments.
SentPaths == UNION { PathsOfLen(n) : n \in 1..MaxSegs }

IsUnreserved(b) ==
    \/ (b >= 48 /\ b <= 57)
    \/ (b >= 65 /\ b <= 90)
    \/ (b >= 97 /\ b <= 122)
    \/ b \in { 45, 46, 95, 126 }

HexDigit(n) == IF n < 10 THEN 48 + n ELSE 55 + n

\* The client's percent-encoding of one segment: every byte that is not
\* an unreserved character becomes "%XX".
RECURSIVE PercentEncode(_)
PercentEncode(bytes) ==
    IF bytes = <<>> THEN <<>>
    ELSE (IF IsUnreserved(bytes[1])
          THEN <<bytes[1]>>
          ELSE <<37, HexDigit(bytes[1] \div 16), HexDigit(bytes[1] % 16)>>)
             \o PercentEncode(Tail(bytes))

EncodeSegments(p) == [i \in 1..Len(p) |-> PercentEncode(p[i])]

\* The segments of a decoded path: the pieces between its backslashes.
RECURSIVE SplitAtBackslash(_)
SplitAtBackslash(bytes) ==
    IF \A i \in 1..Len(bytes) : bytes[i] # 92
    THEN <<bytes>>
    ELSE LET i == CHOOSE k \in 1..Len(bytes) :
                     bytes[k] = 92 /\ \A j \in 1..(k - 1) : bytes[j] # 92
         IN  <<SubSeq(bytes, 1, i - 1)>>
                 \o SplitAtBackslash(SubSeq(bytes, i + 1, Len(bytes)))

\* A client has encoded the segments `sent` into the url of a request
\* to one of the three routes whose handlers decode the path.
InitDecode ==
    /\ sent \in SentPaths
    /\ \E seg \in { "browse", "flatten", "serve" } :
        req = Request(seg, EncodeSegments(sent),
                      [present |-> TRUE, value |-> "alice"], EmptyBody)
    /\ pc = "decode"
    /\ gate = "none"
    /\ reached = "none"
    /\ calls = <<>>
    /\ resp = NoResp
    /\ authLog = <<>>
    /\ parked = NoInFlight

\* path_from_request runs on the request; its result is logged.
Decode ==
    /\ pc = "decode"
    /\ LET path == path_from_request(req)
       IN  calls' = <<Call("path_from_request", path.path, NoPath, "", "", 0,
                           Result(path.ok, "",
                                  IF path.ok THEN "none" ELSE "Utf8Error"))>>
    /\ pc' = "decoded"
    /\ UNCHANGED <<req, gate, reached, resp, authLog, aux>>

NextDecode == Decode

SpecDecode == InitDecode /\ [][NextDecode]_vars

\* ------------------------------------------------------------------
\* Properties
\* ------------------------------------------------------------------

Protected == req.seg \in { "browse", "flatten", "serve" }
Ended == pc \in { "done", "panicked" }
CallOps == { calls[i].op : i \in DOMAIN calls }

\* C1: a request to /browse/, /flatten/ or /serve/ without a "username"
\* cookie never gets past the gate: no handler runs, no collaborator is
\* called, and when it ends its response is Unauthorized.
C1_GateShortCircuits ==
    (Protected /\ ~req.cookie.present) =>
        /\ pc \in { "auth_api_chain", "done" }
        /\ reached = "none"
        /\ calls = <<>>
        /\ gate \in { "unchecked", "rejected" }
        /\ pc = "done" =>
            /\ gate = "rejected"
            /\ resp = ErrResponse("Unauthorized", "Unauthorized")

C1_Witness ==
    /\ Protected
    /\ ~req.cookie.present
    /\ pc = "done"
    /\ resp.status = "Unauthorized"

\* C2: whatever /auth/ attempts came before, the gate's step on a request
\* that carries a "username" cookie (of any value) takes it from unchecked
\* to authorized, hands it unchanged to the inner mount and makes no
\* collaborator call; such a request then ends in the handler of its
\* route, and no request behind the gate ever has an authenticate call.
C2_GateStep ==
    (pc = "auth_api_chain" /\ req.cookie.present) =>
        /\ gate = "unchecked"
        /\ gate' = "authorized"
        /\ pc' = "auth_api_mount"
        /\ req' = req
        /\ calls' = calls
        /\ authLog' = authLog

C2_Behind ==
    (gate # "none") =>
        /\ "authenticate" \notin CallOps
        /\ (req.cookie.present /\ pc = "done") =>
            /\ gate = "authorized"
            /\ reached = auth_api_mount(req.seg)

C2_PresenceOnly == [][C2_GateStep]_vars /\ []C2_Behind

\* A cookie value no earlier /auth/ issued, after a failed and a
\* successful attempt, reaches the serve handler.
C2_Witness ==
    /\ req.seg = "serve"
    /\ req.cookie.value = "mallory"
    /\ gate = "authorized"
    /\ reached = "serve"
    /\ \E i, j \in DOMAIN authLog : authLog[i].issued /\ ~authLog[j].issued
    /\ \A i \in DOMAIN authLog : authLog[i].user # req.cookie.value

\* C3: /version/ and /auth/ are outside the gate: such a request has no
\* gate state, is never answered Unauthorized and ends in its own handler;
\* every other request is put before the gate on arrival, and a handler
\* runs for it only once the gate has authorized it.
C3_GateScope ==
    /\ (req.seg \in { "version", "auth" }) =>
        /\ gate = "none"
        /\ resp.status # "Unauthorized"
        /\ pc \in { req.seg, "done", "panicked" }
        /\ Ended => reached = req.seg
    /\ (pc # "idle" /\ req.seg \notin { "version", "auth" }) =>
        /\ gate # "none"
        /\ pc = "auth_api_chain" <=> gate = "unchecked"
        /\ reached # "none" => gate = "authorized"
        /\ calls # <<>> => gate = "authorized"

C3_Witness ==
    /\ req.seg = "auth"
    /\ ~req.cookie.present
    /\ pc = "done"
    /\ reached = "auth"
    /\ resp.status = "Ok"

\* C4: /auth/ with string username and password calls authenticate once
\* with exactly those; if it returns true the response is Ok with an
\* empty body and a "username" cookie whose value is the submitted
\* username and whose path is "/"; if it returns false the response is
\* Bad Request (IncorrectCredentials) without a cookie.
C4_AuthOutcome ==
    (/\ req.seg = "auth"
     /\ Ended
     /\ req.body.parsed
     /\ req.body.username.tag = "String"
     /\ req.body.password.tag = "String") =>
        /\ pc = "done"
        /\ Len(calls) = 1
        /\ calls[1].op = "authenticate"
        /\ calls[1].user = req.body.username.val
        /\ calls[1].pass = req.body.password.val
        /\ calls[1].res.ok =>
            /\ resp.status = "Ok"
            /\ resp.err = "none"
            /\ resp.body = [kind |-> "text", data |-> ""]
            /\ resp.cookie = [name |-> "username",
                              value |-> req.body.username.val,
                              path |-> "/"]
        /\ ~calls[1].res.ok =>
            /\ resp.status = "BadRequest"
            /\ resp.err = "IncorrectCredentials"
            /\ resp.cookie = NoCookie

C4_Witness ==
    /\ req.seg = "auth"
    /\ pc = "done"
    /\ req.body.username.val = "bob"
    /\ Len(calls) = 1
    /\ calls[1].res.ok
    /\ resp.cookie.value = "bob"

\* C5 (as claimed): every /auth/ request ends in Ok or in
\* IncorrectCredentials (Bad Request); when the body cannot be parsed, or
\* the username or the password is absent or not a string, it ends in
\* IncorrectCredentials with no cookie and no authenticate call.
C5_AuthAlwaysAnswers ==
    (req.seg = "auth" /\ Ended) =>
        /\ pc = "done"
        /\ \/ resp.status = "Ok"
           \/ resp.status = "BadRequest" /\ resp.err = "IncorrectCredentials"
        /\ (\/ ~req.body.parsed
            \/ req.body.username.tag # "String"
            \/ req.body.password.tag # "String") =>
            /\ resp.status = "BadRequest"
            /\ resp.err = "IncorrectCredentials"
            /\ resp.cookie = NoCookie
            /\ calls = <<>>

\* The status table of the Error Translator as the specification gives it.
TableStatus(kind) ==
    IF kind \in { "Io", "PathNotInVfs" } THEN "NotFound"
    ELSE IF kind \in { "CannotServeDirectory", "UnsupportedFileType",
                       "IncorrectCredentials" } THEN "BadRequest"
    ELSE IF kind = "Unauthorized" THEN "Unauthorized"
    ELSE IF kind \in { "CannotClearExistingIndex", "PathDecoding",
                       "ConfigDirectoryError", "CacheDirectoryError",
                       "AlbumArtSearchError", "ImageProcessingError",
                       "UnsupportedMetadataFormat", "MetadataDecodingError" }
         THEN "InternalServerError"
    ELSE "unmapped"

\* C6: whichever domain error kind a collaborator returns, the translation
\* is defined on it and gives the table's status (no kind is unmapped),
\* and every response a handler builds by converting a domain error
\* carries the table's status for that error's kind.
C6_TranslatorTable ==
    /\ \A i \in DOMAIN calls :
        (/\ calls[i].op \in { "browse", "flatten", "locate", "get_thumbnail" }
         /\ ~calls[i].res.ok) =>
            /\ calls[i].res.err \in PErrorKinds
            /\ StatusOf(calls[i].res.err) \in Statuses
            /\ TableStatus(calls[i].res.err) # "unmapped"
            /\ StatusOf(calls[i].res.err) = TableStatus(calls[i].res.err)
    /\ (/\ pc = "done"
        /\ reached \in { "auth", "browse", "flatten", "serve" }
        /\ resp.err \in PErrorKinds
        /\ ~(reached = "serve" /\ Len(calls) = 1)) =>
            resp.status = TableStatus(resp.err)

C6_Witness ==
    /\ pc = "done"
    /\ reached = "flatten"
    /\ Len(calls) = 1
    /\ calls[1].res.err = "Io"
    /\ resp.err = "Io"
    /\ resp.status = "NotFound"

\* C7: when the collection reports the decoded path as PathNotInVfs,
\* /browse/, /flatten/ and /serve/ answer Not Found, and that call is the
\* only collaborator call of the request (no metadata read, no thumbnail).
C7_PathNotInVfs ==
    (/\ pc = "done"
     /\ reached \in { "browse", "flatten", "serve" }
     /\ calls # <<>>
     /\ ~calls[1].res.ok
     /\ calls[1].res.err = "PathNotInVfs") =>
        /\ calls[1].op = (IF reached = "serve" THEN "locate" ELSE reached)
        /\ resp.status = "NotFound"
        /\ resp.err = "PathNotInVfs"
        /\ resp.body = NoBody
        /\ Len(calls) = 1

C7_Witness ==
    /\ pc = "done"
    /\ reached = "serve"
    /\ gate = "authorized"
    /\ Len(calls) = 1
    /\ calls[1].op = "locate"
    /\ calls[1].res.err = "PathNotInVfs"
    /\ resp.status = "NotFound"

\* The resolved location and file type of a /serve/ request that got as
\* far as a successful metadata read.
ServeStatOk ==
    /\ pc = "done"
    /\ reached = "serve"
    /\ Len(calls) >= 2
    /\ calls[1].op = "locate"
    /\ calls[2].op = "metadata"
    /\ calls[2].res.ok
ServedPath == calls[1].res.val
ServedType == calls[2].res.val

\* C8: /serve/ on a path resolved to a directory answers Bad Request
\* (CannotServeDirectory) with no body and without calling the
\* thumbnail generator, whatever the directory is called.
C8_DirectoryRefused ==
    (ServeStatOk /\ ServedType = "dir") =>
        /\ resp.status = "BadRequest"
        /\ resp.err = "CannotServeDirectory"
        /\ resp.body = NoBody
        /\ Len(calls) = 2

C8_Witness ==
    /\ ServeStatOk
    /\ ServedType = "dir"
    /\ ServedPath.ext = "flac"
    /\ resp.status = "BadRequest"

\* C9: /serve/ on a path resolved to an existing file with an audio
\* extension answers Ok with the resolved file itself as the body, after
\* reading the metadata of that same file and without calling the
\* thumbnail generator.
C9_SongServedRaw ==
    (ServeStatOk /\ ServedType = "file" /\ is_song(ServedPath)) =>
        /\ calls[2].rpath = ServedPath
        /\ resp.status = "Ok"
        /\ resp.err = "none"
        /\ resp.cookie = NoCookie
        /\ resp.body.kind = "path"
        /\ resp.body.data = ServedPath
        /\ Len(calls) = 2
        /\ "get_thumbnail" \notin CallOps

C9_Witness ==
    /\ ServeStatOk
    /\ ServedType = "file"
    /\ ServedPath.ext = "MP3"
    /\ resp.status = "Ok"
    /\ resp.body.data = ServedPath

\* C10 (as claimed): /serve/ on a path resolved to an existing file with
\* an image extension answers Ok with the thumbnail generator's output
\* for that file at dimension 400 as the body, never the file itself.
C10_ImageAlwaysThumbnail ==
    (ServeStatOk /\ ServedType = "file" /\ is_image(ServedPath)) =>
        /\ Len(calls) = 3
        /\ calls[3].op = "get_thumbnail"
        /\ calls[3].rpath = ServedPath
        /\ calls[3].dim = 400
        /\ resp.status = "Ok"
        /\ resp.body.kind = "path"
        /\ resp.body.data = calls[3].res.val
        /\ resp.body.data # ServedPath

\* C10 (amended): for such a file the thumbnail generator is called once,
\* for that file at dimension 400; if it succeeds the response is Ok with
\* its output as the body, not the file itself; if it fails the response
\* is the error's translation and has no body.
C10_ImageThumbnail ==
    (ServeStatOk /\ ServedType = "file" /\ is_image(ServedPath)) =>
        /\ Len(calls) = 3
        /\ calls[3].op = "get_thumbnail"
        /\ calls[3].rpath = ServedPath
        /\ calls[3].dim = 400
        /\ calls[3].res.ok =>
            /\ resp.status = "Ok"
            /\ resp.err = "none"
            /\ resp.cookie = NoCookie
            /\ resp.body.kind = "path"
            /\ resp.body.data = calls[3].res.val
            /\ resp.body.data # ServedPath
        /\ ~calls[3].res.ok =>
            /\ resp.status # "Ok"
            /\ resp.status = StatusOf(calls[3].res.err)
            /\ resp.err = calls[3].res.err
            /\ resp.body = NoBody

C10_Witness ==
    /\ ServeStatOk
    /\ ServedType = "file"
    /\ ServedPath.ext = "jpg"
    /\ Len(calls) = 3
    /\ calls[3].res.ok
    /\ resp.status = "Ok"
    /\ resp.body.data = calls[3].res.val

\* C11 (as claimed): the segments a client percent-encodes come back from
\* the decoder as the same segment sequence, also when a segment contains
\* a backslash or is empty.
C11_RoundTrip ==
    (pc = "decoded") =>
        /\ calls[1].res.ok
        /\ SplitAtBackslash(calls[1].vpath) = sent

\* C11 (amended): the round trip holds for segment sequences in which no
\* segment contains a backslash, empty segments included; the decoded path
\* is then the segments joined by backslashes.
C11_RoundTripNoBackslash ==
    (pc = "decoded" /\ \A i \in DOMAIN sent : \A j \in DOMAIN sent[i] :
                            sent[i][j] # 92) =>
        /\ calls[1].res.ok
        /\ calls[1].vpath = Join(sent, <<92>>)
        /\ SplitAtBackslash(calls[1].vpath) = sent

\* An empty segment followed by a two-byte character makes the trip.
C11_Witness ==
    /\ pc = "decoded"
    /\ sent = << <<>>, <<195, 169>> >>
    /\ req.path = << <<>>, <<37, 67, 51, 37, 65, 57>> >>
    /\ calls[1].res.ok
    /\ SplitAtBackslash(calls[1].vpath) = sent

\* The percent-decoded bytes of the request's path are valid UTF-8.
DecodesAsUtf8 == Utf8Valid(percent_decode(Join(req.path, Backslash)))

\* C12: when the percent-decoded path of a /browse/, /flatten/ or /serve/
\* request is not valid UTF-8, the handler does not panic: it answers
\* Bad Request carrying the decoder's error, and makes no collaborator call.
C12_BadUtf8 ==
    (/\ reached \in { "browse", "flatten", "serve" }
     /\ Ended
     /\ ~DecodesAsUtf8) =>
        /\ pc = "done"
        /\ resp.status = "BadRequest"
        /\ resp.err = "Utf8Error"
        /\ resp.body = NoBody
        /\ calls = <<>>

\* "%FF" sent to /serve/.
C12_Witness ==
    /\ reached = "serve"
    /\ pc = "done"
    /\ req.path = << <<37, 70, 70>> >>
    /\ resp.status = "BadRequest"
    /\ calls = <<>>

\* The domain error kind behind an error response: the kind itself, Io for
\* an io::Error, PathDecoding for a decoder error.
CauseKind(err) ==
    IF err \in PErrorKinds THEN err
    ELSE IF err = "io::Error" THEN "Io"
    ELSE IF err = "Utf8Error" THEN "PathDecoding"
    ELSE "none"

\* An error response of the gate or of a handler.
ErrorAnswered ==
    /\ pc = "done"
    /\ resp.status # "Ok"
    /\ gate = "rejected" \/ reached \in { "version", "auth", "browse",
                                          "flatten", "serve" }

\* C13 (as claimed): every error response of the gate or of a handler
\* carries the status the table gives the kind that caused it (Bad Request
\* being the table's entry for a decoding failure surfaced by the decoder,
\* and a serialization failure staying within the table's statuses).
C13_AllThroughTable ==
    ErrorAnswered =>
        LET k == CauseKind(resp.err)
        IN  IF k = "none"
            THEN resp.status \in { TableStatus(e) : e \in PErrorKinds }
            ELSE \/ resp.status = TableStatus(k)
                 \/ k = "PathDecoding" /\ resp.err = "Utf8Error"
                                       /\ resp.status = "BadRequest"

\* C13 (amended): an error response built by converting a domain error
\* (the gate's Unauthorized, IncorrectCredentials, a browse or flatten
\* failure, CannotServeDirectory, UnsupportedFileType, a thumbnail
\* failure) carries the table's status for its kind; the other error
\* responses carry a status the handler picks itself: Bad Request for a
\* decoding failure, Not Found for any locate failure, Not Found,
\* Forbidden or Internal Server Error for a metadata failure by its OS
\* error kind, Internal Server Error for a serialization failure.
C13_TableOrHandlerStatus ==
    ErrorAnswered =>
        IF gate = "rejected"
        THEN resp.err = "Unauthorized"
                 /\ resp.status = TableStatus("Unauthorized")
        ELSE IF resp.err = "Utf8Error" THEN resp.status = "BadRequest"
        ELSE IF resp.err = "EncoderError"
        THEN resp.status = "InternalServerError"
        ELSE IF reached = "serve" /\ Len(calls) = 1
        THEN resp.err = calls[1].res.err /\ resp.status = "NotFound"
        ELSE IF resp.err = "io::Error"
        THEN /\ reached = "serve"
             /\ Len(calls) = 2
             /\ resp.status =
                    (CASE calls[2].res.err = "NotFound" -> "NotFound"
                       [] calls[2].res.err = "PermissionDenied" -> "Forbidden"
                       [] OTHER -> "InternalServerError")
        ELSE resp.err \in PErrorKinds /\ resp.status = TableStatus(resp.err)

\* A browse that failed with an I/O error of the collection is answered
\* Not Found through the table.
C13_Witness ==
    /\ pc = "done"
    /\ reached = "browse"
    /\ Len(calls) = 1
    /\ calls[1].res.err = "Io"
    /\ resp.err = "Io"
    /\ resp.status = "NotFound"

\* C14: when fs::metadata fails in /serve/, the status follows the OS
\* error kind (not found: Not Found, permission denied: Forbidden, any
\* other: Internal Server Error) and the metadata read is the request's
\* last collaborator call.
C14_MetadataFailure ==
    (/\ pc = "done"
     /\ reached = "serve"
     /\ Len(calls) >= 2
     /\ calls[2].op = "metadata"
     /\ ~calls[2].res.ok) =>
        /\ Len(calls) = 2
        /\ resp.err = "io::Error"
        /\ resp.body = NoBody
        /\ calls[2].res.err = "NotFound" => resp.status = "NotFound"
        /\ calls[2].res.err = "PermissionDenied" => resp.status = "Forbidden"
        /\ calls[2].res.err \notin { "NotFound", "PermissionDenied" } =>
            resp.status = "InternalServerError"

C14_Witness ==
    /\ pc = "done"
    /\ reached = "serve"
    /\ Len(calls) = 2
    /\ calls[2].op = "metadata"
    /\ calls[2].res.err = "PermissionDenied"
    /\ resp.status = "Forbidden"

\* The stages of /serve/ that reach a collaborator, in the code's order.
ServeStages == << "locate", "metadata", "get_thumbnail" >>

\* The calls of the request are the first stages of /serve/, in order and
\* once each; the thumbnail stage is entered only for an image file; a
\* failed call is the last one and the response is then an error.
ServeStagesInOrder ==
    reached = "serve" =>
        /\ Len(calls) <= Len(ServeStages)
        /\ \A i \in DOMAIN calls : calls[i].op = ServeStages[i]
        /\ ~DecodesAsUtf8 => calls = <<>>
        /\ Len(calls) = 3 =>
            /\ calls[2].res.val = "file"
            /\ is_image(calls[1].res.val)
            /\ ~is_song(calls[1].res.val)
        /\ \A i \in DOMAIN calls :
            ~calls[i].res.ok =>
                /\ i = Len(calls)
                /\ pc = "done" => resp.status # "Ok"

\* C15: every request ends in exactly one response; no collaborator is
\* called twice within a request; within /serve/ the stages run in the
\* order decode, locate, metadata, classification, thumbnail (images
\* only), and a failure at a stage ends the request with an error response
\* before any later stage runs.
C15_TerminalAndRetryFree ==
    /\ Ended => (pc = "done" /\ resp # NoResp /\ resp.status \in Statuses)
    /\ pc # "done" => resp = NoResp
    /\ \A i, j \in DOMAIN calls : i # j => calls[i].op # calls[j].op
    /\ ServeStagesInOrder

\* The virtual path the handlers hand to the collection.
DecodedPath == path_from_request(req).path

\* The request went through /browse/ or /flatten/ with a path that decodes.
ListingAnswered ==
    /\ reached \in { "browse", "flatten" }
    /\ pc = "done"
    /\ DecodesAsUtf8

\* C16 as stated: /browse/ and /flatten/ call exactly their own collection
\* operation, once, on the decoded path; a failure of kind k is answered
\* with the table's status for k; a success is answered Ok with the
\* serialized listing as body.
C16_ListingAlwaysSerialized ==
    ListingAnswered =>
        /\ Len(calls) = 1
        /\ calls[1].op = reached
        /\ calls[1].vpath = DecodedPath
        /\ ~calls[1].res.ok =>
            /\ resp.err = calls[1].res.err
            /\ resp.status = TableStatus(calls[1].res.err)
            /\ resp.body = NoBody
        /\ calls[1].res.ok =>
            /\ resp.status = "Ok"
            /\ resp.body.kind = "json"
            /\ resp.body.data = calls[1].res.val

\* C16 (amended): /browse/ and /flatten/ call exactly their own collection
\* operation, once, on the decoded path, and never locate or the thumbnail
\* generator; a failure of kind k is answered with the table's status for
\* k; a success is answered Ok with the serialized listing as body when
\* the serialization succeeds, and Internal Server Error with no body when
\* it fails.
C16_ListingPassThrough ==
    ListingAnswered =>
        /\ Len(calls) = 1
        /\ calls[1].op = reached
        /\ calls[1].vpath = DecodedPath
        /\ ~calls[1].res.ok =>
            /\ resp.err = calls[1].res.err
            /\ resp.status = TableStatus(calls[1].res.err)
            /\ resp.body = NoBody
        /\ calls[1].res.ok =>
            \/ /\ resp.status = "Ok"
               /\ resp.err = "none"
               /\ resp.body.kind = "json"
               /\ resp.body.data = calls[1].res.val
            \/ /\ resp.status = "InternalServerError"
               /\ resp.err = "EncoderError"
               /\ resp.body = NoBody
        /\ resp.cookie = NoCookie

\* A listing the collection returned and the encoder refused.
C16_Witness ==
    /\ ListingAnswered
    /\ reached = "browse"
    /\ Len(calls) = 1
    /\ calls[1].op = "browse"
    /\ calls[1].res.ok
    /\ resp.status = "InternalServerError"
    /\ resp.err = "EncoderError"

\* C17: in /serve/, a regular file whose extension is in neither
\* allow-list is refused with UnsupportedFileType (Bad Request), with no
\* body and no thumbnail call; an image whose thumbnail generation fails
\* with kind k is answered with the table's status for k and no body.
C17_UnsupportedOrThumbnailFailure ==
    (ServeStatOk /\ ServedType = "file") =>
        /\ (~is_song(ServedPath) /\ ~is_image(ServedPath)) =>
            /\ resp.status = "BadRequest"
            /\ resp.status = TableStatus("UnsupportedFileType")
            /\ resp.err = "UnsupportedFileType"
            /\ resp.body = NoBody
            /\ resp.cookie = NoCookie
            /\ Len(calls) = 2
            /\ "get_thumbnail" \notin CallOps
        /\ (is_image(ServedPath) /\ Len(calls) = 3 /\ ~calls[3].res.ok) =>
            /\ calls[3].op = "get_thumbnail"
            /\ resp.err = calls[3].res.err
            /\ resp.status = TableStatus(calls[3].res.err)
            /\ resp.status # "Ok"
            /\ resp.body = NoBody
            /\ resp.cookie = NoCookie
        /\ is_image(ServedPath) => Len(calls) = 3

\* A text file is refused.
C17_Witness ==
    /\ ServeStatOk
    /\ ServedType = "file"
    /\ ServedPath.ext = "txt"
    /\ resp.status = "BadRequest"
    /\ resp.err = "UnsupportedFileType"
    /\ Len(calls) = 2

\* ------------------------------------------------------------------
\* Two requests in flight
\* ------------------------------------------------------------------

\* The hosting server runs each request on a thread of its own; the
\* handlers share the collection behind an Arc and nothing else.  One
\* request is the running one (req, pc, gate, reached, calls, resp), the
\* other waits in `parked`; Switch hands the processor over.

\* The requests that arrive while another one is in flight.
ConcRequests ==
    { Request("version", <<>>, CookieAbsent, EmptyBody),
      Request("other", <<>>, [present |-> TRUE, value |-> "alice"], EmptyBody),
      Request("auth", <<>>, CookieAbsent,
              [parsed |-> TRUE,
               username |-> [tag |-> "String", val |-> "alice"],
               password |-> [tag |-> "String", val |-> "secret"]]),
      Request("auth", <<>>, CookieAbsent, UnparsedBody),
      Request("browse", << <<77>>, <<97>> >>, CookieAbsent, EmptyBody),
      Request("browse", << <<77>>, <<97>> >>,
              [present |-> TRUE, value |-> "alice"], EmptyBody),
      Request("flatten", << <<37, 70, 70>> >>,
              [present |-> TRUE, value |-> "mallory"], EmptyBody),
      Request("serve", << <<77>>, <<97>> >>, CookieAbsent, EmptyBody),
      Request("serve", << <<77>>, <<97>> >>,
              [present |-> TRUE, value |-> "alice"], EmptyBody) }

\* The running request as a record.
Running ==
    [req |-> req, pc |-> pc, gate |-> gate, reached |-> reached,
     calls |-> calls, resp |-> resp]

\* A request arrives on the running thread once its previous request is
\* over.
ReceiveConc ==
    /\ pc \in { "idle", "done", "panicked", "aborted" }
    /\ \E r \in ConcRequests :
        /\ api_handler(r.seg) = "auth" =>
            Len(authLog) + (IF parked.pc = "auth" THEN 1 ELSE 0) < MaxAuthLog
        /\ req' = r
        /\ pc' = api_handler(r.seg)
        /\ gate' = IF api_handler(r.seg) = "auth_api_chain"
                   THEN "unchecked" ELSE "none"
    /\ reached' = "none"
    /\ calls' = <<>>
    /\ resp' = NoResp
    /\ UNCHANGED <<authLog, aux>>

\* The other thread gets the processor.
Switch ==
    /\ parked' = Running
    /\ req' = parked.req
    /\ pc' = parked.pc
    /\ gate' = parked.gate
    /\ reached' = parked.reached
    /\ calls' = parked.calls
    /\ resp' = parked.resp
    /\ UNCHANGED <<authLog, sent>>

\* The transport gives a request up while its handler waits on a
\* collaborator: the handler never returns and no response is built.
Abort ==
    /\ \/ pc = "auth" /\ req.body.parsed
       \/ pc = "auth_api_mount" /\ auth_api_mount(req.seg) # "NoMatch"
    /\ pc' = "aborted"
    /\ UNCHANGED <<req, gate, reached, calls, resp, authLog, aux>>

NextConc ==
    \/ ReceiveConc
    \/ Switch
    \/ Abort
    \/ Version
    \/ Auth
    \/ Before
    \/ Browse
    \/ Flatten
    \/ Serve
    \/ NoMatch

SpecConc == Init /\ [][NextConc]_vars

\* The result the i-th call of a request got; a handler that did not get
\* as far as an i-th call does not look at it.
ResultAt(made, i) ==
    IF i <= Len(made) THEN made[i].res ELSE Result(FALSE, "", "none")

\* The gate's decision on a request follows from its own cookie.
OwnGateDecision(x) ==
    /\ x.gate = "authorized" => x.req.cookie.present
    /\ x.gate = "rejected" =>
        /\ ~x.req.cookie.present
        /\ x.pc = "done"
        /\ x.resp = ErrResponse("Unauthorized", "Unauthorized")
        /\ x.calls = <<>>
    /\ x.gate = "unchecked" => x.pc = "auth_api_chain"
    /\ x.gate = "none" => ~(x.req.seg \in { "browse", "flatten", "serve", "other" })

\* The response of a finished request is the one its handler computes
\* from the request itself and the results its own calls returned.
OwnResponse(x) ==
    /\ x.pc # "done" => x.resp = NoResp
    /\ (x.pc = "done" /\ x.gate # "rejected") =>
        \/ /\ x.reached = "version"
           /\ x.req.seg = "version"
           /\ x.resp = version.resp
           /\ x.calls = version.calls
        \/ /\ x.reached = "NoMatch"
           /\ x.req.seg = "other"
           /\ x.resp = no_match.resp
           /\ x.calls = no_match.calls
        \/ /\ x.reached = "auth"
           /\ x.req.seg = "auth"
           /\ LET out == auth(x.req, ResultAt(x.calls, 1).ok)
              IN  out.kind = "response" /\ x.resp = out.resp /\ x.calls = out.calls
        \/ /\ x.reached = "browse"
           /\ x.req.seg = "browse"
           /\ \E encoded \in BOOLEAN :
                LET out == browse(x.req, ResultAt(x.calls, 1), encoded)
                IN  x.resp = out.resp /\ x.calls = out.calls
        \/ /\ x.reached = "flatten"
           /\ x.req.seg = "flatten"
           /\ \E encoded \in BOOLEAN :
                LET out == flatten(x.req, ResultAt(x.calls, 1), encoded)
                IN  x.resp = out.resp /\ x.calls = out.calls
        \/ /\ x.reached = "serve"
           /\ x.req.seg = "serve"
           /\ LET out == serve(x.req, ResultAt(x.calls, 1),
                               ResultAt(x.calls, 2), ResultAt(x.calls, 3))
              IN  x.resp = out.resp /\ x.calls = out.calls

\* A step either leaves the waiting request as it is or is the handover,
\* which changes neither request.
OthersUntouched ==
    \/ parked' = parked
    \/ parked' = Running /\ Running' = parked

\* C18: with two requests in flight under any interleaving, the gate's
\* decision on each follows from its own cookie, its response is the one
\* its handler computes from its own route, cookie, path, body and the
\* results its own calls returned, and no step of one request (a
\* successful /auth/ and an abort included) changes the other.
C18_RequestsIndependent ==
    /\ [](OwnGateDecision(Running) /\ OwnGateDecision(parked))
    /\ [](OwnResponse(Running) /\ OwnResponse(parked))
    /\ [][OthersUntouched]_vars

\* A request without a cookie is turned away while the other request in
\* flight is an /auth/ that succeeded and was issued the cookie.
C18_Witness ==
    /\ pc = "done"
    /\ req.seg = "serve"
    /\ ~req.cookie.present
    /\ gate = "rejected"
    /\ resp.status = "Unauthorized"
    /\ parked.pc = "done"
    /\ parked.reached = "auth"
    /\ parked.resp.status = "Ok"
    /\ parked.resp.cookie.name = "username"
    /\ Len(authLog) >= 1
    /\ authLog[1].issued

\* C19: /serve/ answers with a byte stream only if the request had the
\* "username" cookie, its path decoded, locate succeeded, fs::metadata
\* succeeded and reported a regular file, and the file is a song, or an
\* image whose thumbnail was generated; whatever is not a regular file (a
\* directory or anything else) is refused with CannotServeDirectory.
C19_StreamOnlyIf ==
    /\ (reached = "serve" /\ pc = "done" /\ resp.status = "Ok") =>
        /\ req.cookie.present
        /\ gate = "authorized"
        /\ DecodesAsUtf8
        /\ resp.body.kind = "path"
        /\ Len(calls) >= 2
        /\ calls[1].op = "locate"
        /\ calls[1].res.ok
        /\ calls[1].vpath = DecodedPath
        /\ calls[2].op = "metadata"
        /\ calls[2].rpath = ServedPath
        /\ calls[2].res.ok
        /\ ServedType = "file"
        /\ \/ /\ is_song(ServedPath)
              /\ Len(calls) = 2
              /\ resp.body.data = ServedPath
           \/ /\ is_image(ServedPath)
              /\ Len(calls) = 3
              /\ calls[3].op = "get_thumbnail"
              /\ calls[3].res.ok
              /\ resp.body.data = calls[3].res.val
    /\ (ServeStatOk /\ ServedType # "file") =>
        /\ resp.status = "BadRequest"
        /\ resp.err = "CannotServeDirectory"
        /\ resp.body = NoBody
        /\ Len(calls) = 2

\* Something that is neither a file nor a directory, named like a song.
C19_Witness ==
    /\ ServeStatOk
    /\ ServedType = "other"
    /\ is_song(ServedPath)
    /\ req.cookie.present
    /\ resp.err = "CannotServeDirectory"

\* C20: a response carries a "username" cookie only if it is the Ok
\* response of an /auth/ request whose authenticate call returned true,
\* and the cookie's value is the username that request submitted; no
\* other route and no error response sets a cookie.
C20_CookieOnlyFromAuth ==
    /\ resp.cookie # NoCookie =>
        /\ pc = "done"
        /\ reached = "auth"
        /\ req.seg = "auth"
        /\ resp.status = "Ok"
        /\ resp.err = "none"
        /\ Len(calls) = 1
        /\ calls[1].op = "authenticate"
        /\ calls[1].res.ok
        /\ req.body.parsed
        /\ req.body.username.tag = "String"
        /\ calls[1].user = req.body.username.val
        /\ resp.cookie.name = "username"
        /\ resp.cookie.value = req.body.username.val
    /\ (pc = "done" /\ resp.status # "Ok") => resp.cookie = NoCookie
    /\ (pc = "done" /\ reached # "auth") => resp.cookie = NoCookie

\* bob signs in while presenting mallory's cookie: the cookie set is bob's.
C20_Witness ==
    /\ pc = "done"
    /\ reached = "auth"
    /\ req.cookie.value = "mallory"
    /\ req.body.username.val = "bob"
    /\ resp.status = "Ok"
    /\ resp.cookie.name = "username"
    /\ resp.cookie.value = "bob"


====
